---- MODULE Spec2Model ----
(***************************************************************************)
(* Frank-Wolfe weight matching (src/ccmm/matching/frank_wolfe_matching.py). *)
(*                                                                         *)
(* Numbers.  Every permutation matrix is kept on a grid: an entry a stands *)
(* for the real a / Scale.  Weights are integers (in a weight unit w), so  *)
(* an objective value o stands for the real o * w^2 / Scale^2.  The unit w *)
(* is chosen so that the threshold 1e-6 of the convergence test is         *)
(* ObjTol objective units; the accumulators that the code starts at 0.0    *)
(* start at 0.  A step size b stands for the real b / StepDen.             *)
(***************************************************************************)
EXTENDS Integers, Sequences, FiniteSets, TLC

\* ---------------------------------------------------------------- bounds
Scale == 2
StepDen == 2
MaxIterBound == 16
ShortIterBound == 3
DriverIterBound == 1
MaxTrials == 2

\* ------------------------------------------------------ program constants
PatienceLimit == 15
ObjTol == 6
DefaultBestObj == 0
DefaultOldObj == 0

\* ------------------------------------------------------------ vocabulary
Idx == 1 .. 2
PermNames == {"P_0", "P_1", "P_final"}
FixedNames == {"P_final", "P_4"}
LayerOrder == <<"layer0.weight", "layer1.weight", "linear.weight">>
Layers == {LayerOrder[k] : k \in 1 .. Len(LayerOrder)}
Methods == {"identity", "random", "sinkhorn"}
Seeds == {1, 2}
ParamIds == {"same", "swapped", "uphill", "slow", "half"}
None == "None"
\* a name that is not bound yet; a bound name holds <<value>>
Unbound == <<>>

\* ---------------------------------------------------------------- algebra
Width == Cardinality(Idx)

\* F(1) + ... + F(n)
RECURSIVE SumTo(_, _)
SumTo(F(_), n) == IF n = 0 THEN 0 ELSE F(n) + SumTo(F, n - 1)

MatMul(A, B) ==
    [ij \in Idx \X Idx |-> LET Term(k) == A[ij[1], k] * B[k, ij[2]] IN SumTo(Term, Width)]

Transpose(A) == [ij \in Idx \X Idx |-> A[ij[2], ij[1]]]

Trace(A) == LET Diag(i) == A[i, i] IN SumTo(Diag, Width)

MatAdd(A, B) == [ij \in Idx \X Idx |-> A[ij] + B[ij]]

Zeros == [ij \in Idx \X Idx |-> 0]

\* None where a matrix is expected
NoneMatrix == [ij \in Idx \X Idx |-> 0 - 1]

\* torch.eye(n), on the grid
Eye == [ij \in Idx \X Idx |-> IF ij[1] = ij[2] THEN Scale ELSE 0]

\* perm_rows(x, perm) = perm @ x
perm_rows(x, perm) == MatMul(perm, x)

\* perm_cols(x, perm) = (perm^T @ x^T)^T
perm_cols(x, perm) == Transpose(perm_rows(Transpose(x), Transpose(perm)))

\* ------------------------------------------------------------------ inputs
\* ModelParams of the two networks: every layer is an Idx x Idx integer matrix,
\* written as the tuple of its rows.
Mat(rows) == [ij \in Idx \X Idx |-> rows[ij[1]][ij[2]]]

Weights(layer0, layer1, linear) ==
    [l \in Layers |->
        IF l = "layer0.weight" THEN Mat(layer0)
        ELSE IF l = "layer1.weight" THEN Mat(layer1) ELSE Mat(linear)]

\* "same": the two networks are equal.  "swapped": the permutee is the fixed
\* network with its first hidden layer in the other order.  "uphill": the
\* objective is negative and rises over two iterations.  "slow": the objective
\* rises by less than the tolerance in each of two iterations.  "half": the line
\* search stops inside the segment.
ParamsA(id) ==
    IF id \in {"same", "swapped"}
    THEN Weights(<<<<2, 0>>, <<0, 2>>>>, <<<<1, 1>>, <<0, 1>>>>, <<<<1, 0>>, <<0, 1>>>>)
    ELSE IF id = "uphill"
    THEN Weights(<<<<0, 1>>, <<2, 0>>>>, <<<<0, -2>>, <<-1, 2>>>>, <<<<-2, -1>>, <<2, 1>>>>)
    ELSE IF id = "slow"
    THEN Weights(<<<<2, -1>>, <<-1, 1>>>>, <<<<-2, -1>>, <<0, -1>>>>, <<<<-1, 2>>, <<1, 1>>>>)
    ELSE Weights(<<<<2, 1>>, <<1, 0>>>>, <<<<1, 0>>, <<-2, 2>>>>, <<<<2, 2>>, <<2, 0>>>>)

ParamsB(id) ==
    IF id = "same"
    THEN Weights(<<<<2, 0>>, <<0, 2>>>>, <<<<1, 1>>, <<0, 1>>>>, <<<<1, 0>>, <<0, 1>>>>)
    ELSE IF id = "swapped"
    THEN Weights(<<<<0, 2>>, <<2, 0>>>>, <<<<1, 1>>, <<1, 0>>>>, <<<<1, 0>>, <<0, 1>>>>)
    ELSE IF id = "uphill"
    THEN Weights(<<<<-1, 0>>, <<1, 2>>>>, <<<<2, 1>>, <<1, -1>>>>, <<<<2, 0>>, <<0, -2>>>>)
    ELSE IF id = "slow"
    THEN Weights(<<<<1, -2>>, <<2, -1>>>>, <<<<2, 0>>, <<-1, -1>>>>, <<<<-1, -1>>, <<-2, 1>>>>)
    ELSE Weights(<<<<1, 2>>, <<-2, -1>>>>, <<<<-1, 2>>, <<2, -1>>>>, <<<<-2, 2>>, <<0, -2>>>>)

\* PermutationSpec.layer_and_axes_to_perm: layer |-> (row permutation, column permutation)
LayerAndAxesToPerm ==
    [l \in Layers |->
        IF l = "layer0.weight" THEN <<"P_0", None>>
        ELSE IF l = "layer1.weight" THEN <<"P_1", "P_0">>
        ELSE <<"P_final", "P_1">>]

\* ------------------------------------------------------- similarity objective
\* compute_layer_similarity, matrix case: trace(Wa^T @ (P_curr @ Wb @ P_prev^T))
ComputeLayerSimilarity(Wa, Wb, P_curr, P_prev) ==
    LET Wb_perm == perm_cols(perm_rows(Wb, P_curr), Transpose(P_prev))
    IN  Trace(MatMul(Transpose(Wa), Wb_perm))

RowPerm(l, perm_matrices) ==
    IF LayerAndAxesToPerm[l][1] = None THEN Eye ELSE perm_matrices[LayerAndAxesToPerm[l][1]]

ColPerm(l, perm_matrices) ==
    IF LayerAndAxesToPerm[l][2] = None THEN Eye ELSE perm_matrices[LayerAndAxesToPerm[l][2]]

GetGlobalObjLayerwise(params_a, params_b, perm_matrices) ==
    LET Similarity(k) ==
            ComputeLayerSimilarity(params_a[LayerOrder[k]], params_b[LayerOrder[k]],
                                   RowPerm(LayerOrder[k], perm_matrices),
                                   ColPerm(LayerOrder[k], perm_matrices))
    IN  SumTo(Similarity, Len(LayerOrder))

\* compute_gradient_P_curr: Wa @ (P_prev @ Wb^T)
ComputeGradientPCurr(Wa, Wb, P_prev) == MatMul(Wa, perm_rows(Transpose(Wb), P_prev))

\* compute_gradient_P_prev: Wa^T @ (P_curr @ Wb)
ComputeGradientPPrev(Wa, Wb, P_curr) == MatMul(Transpose(Wa), perm_rows(Wb, P_curr))

\* the gradients after the first k layers of the loop over the layers
RECURSIVE GradientsAfter(_, _, _, _)
GradientsAfter(k, params_a, params_b, perm_matrices) ==
    IF k = 0 THEN [p \in PermNames |-> Zeros]
    ELSE LET l == LayerOrder[k]
             gradients == GradientsAfter(k - 1, params_a, params_b, perm_matrices)
             row_perm_id == LayerAndAxesToPerm[l][1]
             col_perm_id == LayerAndAxesToPerm[l][2]
             grad_P_curr == ComputeGradientPCurr(params_a[l], params_b[l], ColPerm(l, perm_matrices))
             grad_P_prev == ComputeGradientPPrev(params_a[l], params_b[l], RowPerm(l, perm_matrices))
         IN  [p \in PermNames |->
                MatAdd(MatAdd(gradients[p], IF row_perm_id = p THEN grad_P_curr ELSE Zeros),
                       IF col_perm_id = p THEN grad_P_prev ELSE Zeros)]

WeightMatchingGradientFnLayerwise(params_a, params_b, perm_matrices) ==
    GradientsAfter(Len(LayerOrder), params_a, params_b, perm_matrices)

\* ------------------------------------------------------- assignment projector
IndexPermutations == {f \in [Idx -> Idx] : \A i, j \in Idx : f[i] = f[j] => i = j}

PermToMatrix(f) == [ij \in Idx \X Idx |-> IF f[ij[1]] = ij[2] THEN Scale ELSE 0]

LapScore(G, f) == LET Picked(i) == G[i, f[i]] IN SumTo(Picked, Width)

\* solve_linear_assignment_problem: the index arrays maximising trace(G^T X);
\* which of several maximisers the solver returns is its own rule
SolveLinearAssignmentProblem(G) ==
    {f \in IndexPermutations : \A g \in IndexPermutations : LapScore(G, f) >= LapScore(G, g)}

\* project_gradients: every choice of one maximising vertex per variable
ProjectGradients(gradients) ==
    LET vertices == [p \in PermNames |->
                        {PermToMatrix(f) : f \in SolveLinearAssignmentProblem(gradients[p])}]
    IN  {pg \in [PermNames -> {PermToMatrix(f) : f \in IndexPermutations}] :
            \A p \in PermNames : pg[p] \in vertices[p]}

\* ------------------------------------------------------------ line search
StepSizes == 0 .. StepDen

\* (1 - t) * perm + t * proj_grad for t = b / StepDen
Interpolate(perm, proj_grad, b) ==
    [ij \in Idx \X Idx |-> ((StepDen - b) * perm[ij] + b * proj_grad[ij]) \div StepDen]

\* the step sizes whose interpolated matrices stay on the grid
Representable(perm_matrices, proj_grads, b) ==
    \A p \in PermNames \ FixedNames : \A ij \in Idx \X Idx :
        ((StepDen - b) * perm_matrices[p][ij] + b * proj_grads[p][ij]) % StepDen = 0

\* line_search_step: the interpolated matrices it evaluates ...
InterpolatedPerms(t, proj_grads, perm_matrices) ==
    [p \in PermNames |->
        IF p \in {"P_final", "P_4"} THEN perm_matrices[p]
        ELSE Interpolate(perm_matrices[p], proj_grads[p], t)]

\* ... and the value it returns
LineSearchStep(t, params_a, params_b, proj_grads, perm_matrices) ==
    0 - GetGlobalObjLayerwise(params_a, params_b, InterpolatedPerms(t, proj_grads, perm_matrices))

\* fminbound(line_search_step_func, 0, 1): a bounded scalar minimiser ends at a
\* local minimum of the function on [0, 1]: here a representable step whose value
\* is not above the value at the representable steps next to it
Neighbours(perm_matrices, proj_grads, t) ==
    LET reps == {b \in StepSizes : Representable(perm_matrices, proj_grads, b)}
    IN  {b \in reps : /\ b # t
                      /\ ~ \E c \in reps : (b < c /\ c < t) \/ (t < c /\ c < b)}

Fminbound(params_a, params_b, proj_grads, perm_matrices) ==
    {t \in StepSizes :
        /\ Representable(perm_matrices, proj_grads, t)
        /\ \A b \in Neighbours(perm_matrices, proj_grads, t) :
              LineSearchStep(t, params_a, params_b, proj_grads, perm_matrices)
                <= LineSearchStep(b, params_a, params_b, proj_grads, perm_matrices)}

\* faulty variants of update_perm_matrices: the step taken from the wrong end,
\* the vertex added without shrinking the current matrix, no variable held fixed
UpdateReversedStep(perm_matrices, proj_grads, step_size) ==
    [p \in PermNames |->
        IF p \in {"P_final", "P_4"} THEN perm_matrices[p]
        ELSE [ij \in Idx \X Idx |->
                (step_size * perm_matrices[p][ij] + (StepDen - step_size) * proj_grads[p][ij])
                    \div StepDen]]

UpdateWithoutShrink(perm_matrices, proj_grads, step_size) ==
    [p \in PermNames |->
        IF p \in {"P_final", "P_4"} THEN perm_matrices[p]
        ELSE [ij \in Idx \X Idx |->
                (StepDen * perm_matrices[p][ij] + step_size * proj_grads[p][ij]) \div StepDen]]

UpdateEveryName(perm_matrices, proj_grads, step_size) ==
    [p \in PermNames |->
        [ij \in Idx \X Idx |->
            ((StepDen - step_size) * perm_matrices[p][ij] + step_size * proj_grads[p][ij])
                \div StepDen]]

\* update_perm_matrices
UpdatePermMatrices(perm_matrices, proj_grads, step_size) ==
    [p \in PermNames |->
        IF p \in {"P_final", "P_4"} THEN perm_matrices[p]
        ELSE [ij \in Idx \X Idx |->
                ((StepDen - step_size) * perm_matrices[p][ij] + step_size * proj_grads[p][ij])
                    \div StepDen]]

\* ------------------------------------------------------------- initializer
PermOrd(p) == IF p = "P_0" THEN 0 ELSE IF p = "P_1" THEN 1 ELSE 2

\* torch.rand(n, n) after seed_everything(seed): entries in [0, 1), fixed by the seed
Rand(seed, p) ==
    [ij \in Idx \X Idx |-> (seed * ij[1] + ij[2] + PermOrd(p)) % Scale]

RowSum(M, i) == LET Entry(j) == M[i, j] IN SumTo(Entry, Width)
ColSum(M, j) == LET Entry(i) == M[i, j] IN SumTo(Entry, Width)

\* the test of the return statement of sinkhorn_knopp: all row and column sums are 1
SumsToOne(M) == \A i \in Idx : RowSum(M, i) = Scale /\ ColSum(M, i) = Scale

\* sinkhorn_knopp(matrix): rescaling keeps the zero entries of the matrix and
\* nothing else zero; the loop returns the rescaled matrix once every row and
\* column sum is 1, and when the loop runs out the function returns nothing (None)
SinkhornKnopp(matrix) ==
    {NoneMatrix} \cup {M \in [Idx \X Idx -> 0 .. Scale] :
                    SumsToOne(M) /\ \A ij \in Idx \X Idx : (M[ij] = 0) <=> (matrix[ij] = 0)}

\* initialize_perm_matrices: the dictionaries it can return
InitializePermMatrices(initialization_method, seed) ==
    IF initialization_method = "identity" THEN {[p \in PermNames |-> Eye]}
    ELSE IF initialization_method = "random" THEN {[p \in PermNames |-> Rand(seed, p)]}
    ELSE {pm \in [PermNames -> UNION {SinkhornKnopp(Rand(seed, p)) : p \in PermNames}] :
            \A p \in PermNames : pm[p] \in SinkhornKnopp(Rand(seed, p))}

\* ------------------------------------------------------------------- state
VARIABLES
    initialization_method, max_iter, num_trials, params,
    pc, raised, trial_no, seed, trial_objs,
    best_obj, best_trial, best_perm_matrices, best_perm_matrices_history, returned,
    trial_state, perm_matrices, perm_matrices_history, old_obj, patience_steps,
    iteration, proj_grads, step_size, new_obj

inputs == <<initialization_method, max_iter, num_trials, params>>
driver == <<trial_no, seed, trial_objs, best_obj, best_trial, best_perm_matrices,
            best_perm_matrices_history, returned>>
trial == <<trial_state, perm_matrices, perm_matrices_history, old_obj, patience_steps,
           iteration, proj_grads, step_size, new_obj>>
vars == <<inputs, pc, raised, driver, trial>>

params_a == ParamsA(params)
params_b == ParamsB(params)

\* the locals of frank_wolfe_weight_matching_trial outside a call of it
NoMatrices == [p \in PermNames |-> NoneMatrix]

NoTrial ==
    /\ trial_state = None /\ perm_matrices = NoMatrices /\ perm_matrices_history = <<>>
    /\ old_obj = 0 /\ patience_steps = 0 /\ iteration = 0
    /\ proj_grads = NoMatrices /\ step_size = 0 /\ new_obj = Unbound

\* frank_wolfe_weight_matching up to its loop over the seeds
InitWith(methods, max_iters, trial_counts) ==
    /\ initialization_method \in methods
    /\ max_iter \in max_iters
    /\ num_trials \in trial_counts
    /\ params \in ParamIds
    /\ pc = "loop" /\ raised = None /\ trial_no = 0 /\ seed = 0 /\ trial_objs = <<>>
    /\ best_obj = DefaultBestObj /\ best_trial = 0
    /\ best_perm_matrices = Unbound /\ best_perm_matrices_history = Unbound
    /\ returned = Unbound
    /\ NoTrial

\* ----------------------------------------------------------------- actions
\* the loop takes the next seed and the trial runs up to its own loop
StartTrial ==
    /\ pc = "loop" /\ trial_no < num_trials
    /\ \E sd \in Seeds : \E pm \in InitializePermMatrices(initialization_method, sd) :
        /\ seed' = sd
        /\ perm_matrices' = pm
        /\ perm_matrices_history' = <<pm>>
    /\ trial_no' = trial_no + 1
    /\ old_obj' = DefaultOldObj /\ patience_steps' = 0 /\ iteration' = 0
    /\ trial_state' = "Initialized" /\ pc' = "trial"
    /\ UNCHANGED <<inputs, raised, trial_objs, best_obj, best_trial, best_perm_matrices,
                   best_perm_matrices_history, returned, proj_grads, step_size, new_obj>>

\* (new_obj - old_obj) < 1e-6
NotImproved(obj, old) == (obj - old) < ObjTol

\* patience_steps >= 15
PatienceExhausted(patience) == patience >= PatienceLimit

\* the history after the body of the loop: the break comes before the append
HistoryAfter(history, matrices, stop) == IF stop THEN history ELSE Append(history, matrices)

\* one pass through the body of the trial loop
Iterate ==
    /\ pc = "trial" /\ trial_state \in {"Initialized", "Iterating"} /\ iteration < max_iter
    /\ IF \E p \in PermNames : perm_matrices[p] = NoneMatrix
       THEN /\ pc' = "error" /\ raised' = "AttributeError: None in the gradient"
            /\ UNCHANGED <<inputs, driver, trial>>
       ELSE /\ \E pg \in ProjectGradients(
                        WeightMatchingGradientFnLayerwise(params_a, params_b, perm_matrices)) :
                \E t \in Fminbound(params_a, params_b, pg, perm_matrices) :
                    /\ proj_grads' = pg
                    /\ step_size' = t
                    /\ perm_matrices' = UpdatePermMatrices(perm_matrices, pg, t)
            /\ new_obj' = <<GetGlobalObjLayerwise(params_a, params_b, perm_matrices')>>
            /\ patience_steps' = IF NotImproved(new_obj'[1], old_obj) THEN patience_steps + 1 ELSE 0
            /\ old_obj' = IF NotImproved(new_obj'[1], old_obj) THEN old_obj ELSE new_obj'[1]
            /\ perm_matrices_history' =
                 HistoryAfter(perm_matrices_history, perm_matrices', PatienceExhausted(patience_steps'))
            /\ trial_state' = IF PatienceExhausted(patience_steps') THEN "Converged" ELSE "Iterating"
            /\ iteration' = iteration + 1
            /\ UNCHANGED <<inputs, pc, raised, driver>>

\* range(max_iter) is used up
LoopExhausted ==
    /\ pc = "trial" /\ trial_state \in {"Initialized", "Iterating"} /\ iteration = max_iter
    /\ trial_state' = "MaxIterReached"
    /\ UNCHANGED <<inputs, pc, raised, driver, perm_matrices, perm_matrices_history, old_obj,
                   patience_steps, iteration, proj_grads, step_size, new_obj>>

\* a faulty variant of the comparison of the trials: a tie replaces the best
BetterOrEqualTrial(trial_obj, best) == trial_obj >= best

\* trial_obj > best_obj
BetterTrial(trial_obj, best) == trial_obj > best

\* the return of the trial and the rest of the body of the loop over the seeds
TrialReturn ==
    /\ pc = "trial" /\ trial_state \in {"Converged", "MaxIterReached"}
    /\ IF new_obj = Unbound
       THEN /\ pc' = "error" /\ raised' = "UnboundLocalError: new_obj"
            /\ UNCHANGED <<inputs, driver, trial>>
       ELSE /\ trial_objs' = Append(trial_objs, new_obj[1])
            /\ IF BetterTrial(new_obj[1], best_obj)
               THEN /\ best_obj' = new_obj[1]
                    /\ best_trial' = trial_no
                    /\ best_perm_matrices' = <<perm_matrices>>
                    /\ best_perm_matrices_history' = <<perm_matrices_history>>
               ELSE UNCHANGED <<best_obj, best_trial, best_perm_matrices,
                                best_perm_matrices_history>>
            /\ pc' = "loop"
            /\ trial_state' = None /\ perm_matrices' = NoMatrices
            /\ perm_matrices_history' = <<>> /\ old_obj' = 0
            /\ patience_steps' = 0 /\ iteration' = 0
            /\ proj_grads' = NoMatrices /\ step_size' = 0 /\ new_obj' = Unbound
            /\ UNCHANGED <<inputs, raised, trial_no, seed, returned>>

\* the hardening of the best matrices and the return of the driver
Harden ==
    /\ pc = "loop" /\ trial_no = num_trials
    /\ IF best_perm_matrices = Unbound
       THEN /\ pc' = "error" /\ raised' = "UnboundLocalError: best_perm_matrices"
            /\ UNCHANGED returned
       ELSE /\ \E return_perm_history \in BOOLEAN :
               \E all_perm_indices \in [PermNames -> IndexPermutations] :
                /\ \A p \in PermNames :
                      all_perm_indices[p] \in SolveLinearAssignmentProblem(best_perm_matrices[1][p])
                /\ returned' = IF return_perm_history
                               THEN <<all_perm_indices, best_perm_matrices_history[1]>>
                               ELSE <<all_perm_indices>>
            /\ pc' = "done" /\ UNCHANGED raised
    /\ UNCHANGED <<inputs, trial_no, seed, trial_objs, best_obj, best_trial,
                   best_perm_matrices, best_perm_matrices_history, trial>>

Next == StartTrial \/ Iterate \/ LoopExhausted \/ TrialReturn \/ Harden

\* one trial: every method with a short iteration cap, and the methods that
\* start from doubly stochastic matrices with the caps around the patience limit
Init ==
    \/ InitWith(Methods, 0 .. ShortIterBound, {1})
    \/ InitWith({"identity", "sinkhorn"}, PatienceLimit .. MaxIterBound, {1})
Spec == Init /\ [][Next]_vars

\* several trials, each with a short iteration cap
InitDriver == InitWith(Methods, 0 .. DriverIterBound, 0 .. MaxTrials)
SpecDriver == InitDriver /\ [][Next]_vars

\* ------------------------------------------------------------------ claims
InTrial == pc = "trial"
HasMatrices == \A p \in PermNames : perm_matrices[p] # NoneMatrix
IterationStep == pc = "trial" /\ pc' = "trial" /\ iteration' = iteration + 1
Objective(matrices) == GetGlobalObjLayerwise(params_a, params_b, matrices)
DriverEnded == pc \in {"done", "error"}
AllTrialsReturned == Len(trial_objs) = num_trials

\* the first position of the largest value of a non-empty sequence
FirstMax(objs) ==
    CHOOSE k \in 1 .. Len(objs) :
        /\ \A j \in 1 .. Len(objs) : objs[j] <= objs[k]
        /\ \A j \in 1 .. (k - 1) : objs[j] < objs[k]

\* C1: once every trial has returned its objective, the driver returns the
\* hardening of the trial with the highest objective, the first of them on a tie.
C1_KeepsHighestTrial ==
    (DriverEnded /\ AllTrialsReturned /\ num_trials > 0)
        => (pc = "done" /\ best_trial = FirstMax(trial_objs))

\* C2: the history of a trial is the initial matrices and one snapshot per
\* executed iteration, the last one being the current matrices, however the
\* loop ended.
C2_HistoryHasEveryIteration ==
    (InTrial /\ HasMatrices)
        => /\ Len(perm_matrices_history) = iteration + 1
           /\ perm_matrices_history[Len(perm_matrices_history)] = perm_matrices

\* C3: for every initialization method the matrix of P_final is the identity
\* in the initial state and after every iteration, and the line search and the
\* update leave it alone.
C3_FinalStaysIdentity ==
    (InTrial /\ HasMatrices)
        => /\ perm_matrices["P_final"] = Eye
           /\ \A t \in StepSizes :
                /\ InterpolatedPerms(t, proj_grads, perm_matrices)["P_final"] = perm_matrices["P_final"]
                /\ UpdatePermMatrices(perm_matrices, proj_grads, t)["P_final"] = perm_matrices["P_final"]

C5_CapReturnsBestSoFar ==
    /\ raised # "UnboundLocalError: new_obj"
    /\ (InTrial /\ trial_state = "MaxIterReached" /\ HasMatrices) =>
        /\ new_obj # Unbound
        /\ Objective(perm_matrices) = new_obj[1]
        /\ \A k \in 2 .. Len(perm_matrices_history) :
              Objective(perm_matrices_history[k]) <= new_obj[1]

\* all row sums and column sums are 1 and all entries lie in [0, 1]
DoublyStochastic(M) == SumsToOne(M) /\ \A ij \in Idx \X Idx : M[ij] \in 0 .. Scale

C7_ObjectiveNonDecreasing ==
    [][(/\ IterationStep
        /\ new_obj # Unbound
        /\ LineSearchStep(step_size', params_a, params_b, proj_grads', perm_matrices)
             <= LineSearchStep(0, params_a, params_b, proj_grads', perm_matrices))
       => new_obj'[1] >= new_obj[1]]_vars

C7_Witness ==
    /\ InTrial /\ HasMatrices /\ trial_state = "Iterating" /\ iteration >= 2
    /\ step_size > 0
    /\ new_obj[1] > Objective(perm_matrices_history[iteration])

\* C8: the patience counter goes up when the objective of this
\* iteration exceeds the objective of the iteration before by less than 1e-6,
\* and otherwise it is reset and the objective recorded.
C8_PatienceAgainstPreviousIteration ==
    [][(IterationStep /\ new_obj # Unbound)
       => IF new_obj'[1] - new_obj[1] < ObjTol
          THEN patience_steps' = patience_steps + 1
          ELSE patience_steps' = 0 /\ old_obj' = new_obj'[1]]_vars

\* every choice of one vertex per variable
AllVertexChoices == [PermNames -> {PermToMatrix(f) : f \in IndexPermutations}]

\* C9: whatever the step and the vertices, update_perm_matrices returns the
\* matrices line_search_step evaluates, for every variable; and the objective
\* computed after the update is minus the line-search value at the chosen step.
C9_UpdateIsInterpolation ==
    [][IterationStep
       => /\ \A pg \in AllVertexChoices : \A t \in StepSizes :
                Representable(perm_matrices, pg, t)
                    => UpdatePermMatrices(perm_matrices, pg, t)
                         = InterpolatedPerms(t, pg, perm_matrices)
          /\ new_obj'[1] = 0 - LineSearchStep(step_size', params_a, params_b,
                                              proj_grads', perm_matrices)]_vars

C9_Witness ==
    /\ InTrial /\ HasMatrices /\ iteration >= 1
    /\ step_size > 0 /\ step_size < StepDen
    /\ \E p \in PermNames : proj_grads[p] # perm_matrices[p]
    /\ proj_grads["P_final"] # perm_matrices["P_final"]

\* the first position of the largest positive value, 0 when no value is positive
FirstPositiveMax(objs) ==
    IF \A k \in 1 .. Len(objs) : objs[k] <= DefaultBestObj THEN 0 ELSE FirstMax(objs)

\* C10: best_obj starts at 0.0 and only a trial with a strictly greater
\* objective replaces it, so the trial kept is the first one with the largest
\* positive objective; with no positive objective (or no trial) none is kept and
\* the driver ends in an error at the hardening, returning nothing.
C10_OnlyPositiveTrialKept ==
    /\ best_trial = FirstPositiveMax(trial_objs)
    /\ best_obj = (IF best_trial = 0 THEN DefaultBestObj ELSE trial_objs[best_trial])
    /\ (best_trial = 0) <=> (best_perm_matrices = Unbound)
    /\ (best_trial # 0) => (best_obj > 0)
    /\ (DriverEnded /\ AllTrialsReturned /\ best_trial = 0)
          => /\ raised = "UnboundLocalError: best_perm_matrices"
             /\ pc = "error" /\ returned = Unbound
    /\ (pc = "done") => (best_trial # 0 /\ returned # Unbound)

C10_Witness ==
    /\ pc = "error" /\ raised = "UnboundLocalError: best_perm_matrices"
    /\ num_trials >= 2 /\ AllTrialsReturned
    /\ \E k \in 1 .. Len(trial_objs) : trial_objs[k] < 0

====
